---- MODULE Spec2Model ----
(***************************************************************************)
(* Model of the commatCommit.generate command of src/src/extension.ts:     *)
(* credential lookup, staged diff acquisition, the Gemini call with its    *)
(* rate-limit replacement path, response parsing and delivery of the       *)
(* message into the repository's commit-message field.                     *)
(*                                                                         *)
(* Strings that are inspected character by character (the diff, the text   *)
(* of a response part, the commit message) are sequences of one-character  *)
(* strings.  API keys are opaque and are plain strings.  Each action is    *)
(* one run of the handler between two suspension points (await) at which   *)
(* the outside world answers: the key prompt, git, the endpoint, the user. *)
(***************************************************************************)
EXTENDS Integers, Sequences, FiniteSets, TLC

(* ------------------------------ bounds ------------------------------ *)

MaxDiffLen == 1
MaxParts == 2
MaxCalls == 3

(* ----------------------------- alphabets ---------------------------- *)

Procs == {1, 2}
SeqProcs == {1}

Undefined == "undefined"
NotAsked == "not-asked"
Keys == {"k1", "k2"}
KeyInputs == Keys \cup {"", Undefined}

WhiteSpace == {" ", "\n", "\t"}
DiffChars == {" ", "\t", "a"}

SeqsUpTo(S, n) == UNION {[1..m -> S] : m \in 0..n}

Diffs == SeqsUpTo(DiffChars, MaxDiffLen)

(* texts of a response part: empty, blank, plain, blank on both sides *)
Texts == {<<>>, <<" ">>, <<"a">>, <<" ", "b", "\n">>}

(* a part of a candidate: with a text field, or without one *)
NoTextPart == [inlineData |-> TRUE]
PartValues == {[text |-> t] : t \in Texts} \cup {NoTextPart}
PartLists == SeqsUpTo(PartValues, MaxParts)

(* a candidate: with content.parts an array, or without content *)
NoContentCand == [finishReason |-> "SAFETY"]
OtherCand == [parts |-> <<[text |-> <<"a">>]>>]
FirstCands == {[parts |-> ps] : ps \in PartLists} \cup {NoContentCand}

(* the JSON body: with candidates, or an object without them *)
NoCandidates == [promptFeedback |-> TRUE]
Datas ==
    {[candidates |-> <<c>>] : c \in FirstCands}
      \cup {[candidates |-> <<c, OtherCand>>] :
              c \in {NoContentCand, [parts |-> <<>>],
                      [parts |-> <<[text |-> <<" ", "b", "\n">>]>>]}}
      \cup {[candidates |-> <<>>], NoCandidates}

(* what the endpoint may answer: 200 with a body, 429, or 500 *)
Responses ==
    {[status |-> 200, data |-> d] : d \in Datas}
      \cup {[status |-> s, data |-> NoCandidates] : s \in {429, 500}}
NoResponse == [status |-> 0, data |-> NoCandidates]

RepoEnvs == {"no-git-extension", "no-repository", "ok"}
Choices == {"Enter New API Key", "Cancel", Undefined}

(* --------------------------- pure functions -------------------------- *)

(* JavaScript truthiness of a string | undefined *)
Falsy(k) == k \in {Undefined, ""}

RECURSIVE TrimStart(_)
TrimStart(s) ==
    IF s # <<>> /\ Head(s) \in WhiteSpace THEN TrimStart(Tail(s)) ELSE s

RECURSIVE TrimEnd(_)
TrimEnd(s) ==
    IF s # <<>> /\ s[Len(s)] \in WhiteSpace
    THEN TrimEnd(SubSeq(s, 1, Len(s) - 1))
    ELSE s

TrimStartOnly(s) == TrimStart(s)

(* String.prototype.trim *)
Trim(s) == TrimEnd(TrimStart(s))

IsBlankEmptyOnly(diff) == diff = <<>>

(* !diff.trim() *)
IsBlank(diff) == Trim(diff) = <<>>

(* response.ok *)
ResponseOk(status) == status >= 200 /\ status <= 299

(* Array.isArray(data?.candidates?.[0]?.content?.parts) *)
HasPartsArray(data) ==
    /\ "candidates" \in DOMAIN data
    /\ Len(data.candidates) >= 1
    /\ "parts" \in DOMAIN data.candidates[1]

PartsOf(data) == data.candidates[1].parts

(* Boolean(p?.text) *)
HasText(p) == "text" \in DOMAIN p /\ p.text # <<>>

FirstPartOnly(parts) ==
    IF parts # <<>> /\ HasText(parts[1]) THEN parts[1].text ELSE <<>>

(* parts.map(p => p?.text).filter(Boolean).join("") *)
RECURSIVE JoinTexts(_)
JoinTexts(parts) ==
    IF parts = <<>> THEN <<>>
    ELSE (IF HasText(Head(parts)) THEN Head(parts).text ELSE <<>>)
           \o JoinTexts(Tail(parts))

ExtractText(parts) == Trim(JoinTexts(parts))

NeedsPromptAlways(stored) == TRUE

(* if (!apiKey) after secrets.get *)
NeedsPrompt(stored) == Falsy(stored)

StoreAlways(stored, entered) == entered

(* if (key) await secrets.store("geminiApiKey", key) *)
StoreIfGiven(stored, entered) == IF Falsy(entered) THEN stored ELSE entered

(* ------------------------------- state ------------------------------- *)

VARIABLES
    secret,      \* extensionContext.secrets["geminiApiKey"], Undefined if absent
    inputBox,    \* repo.inputBox.value of git.repositories[0]
    lastEntered, \* history: the last non-empty key typed into a key prompt
    inv          \* per invocation of the command: its locals and what it did

vars == <<secret, inputBox, lastEntered, inv>>

(* an invocation that is not running *)
Idle ==
    [pc |-> "idle", apiKey |-> Undefined, diff |-> <<>>, gotDiff |-> FALSE,
     calls |-> 0, callKeys |-> <<>>, readStore |-> NotAsked,
     firstInput |-> NotAsked, replInput |-> NotAsked, entered |-> {},
     errs |-> 0, choiceErrs |-> 0, n429 |-> 0, warns |-> 0, infos |-> 0,
     firstPrompts |-> 0, replPrompts |-> 0, execs |-> 0, errMsg |-> "",
     resp |-> NoResponse, rawMessage |-> <<>>, wrote |-> FALSE,
     result |-> "none", boxBefore |-> <<>>]

Init ==
    /\ secret \in {Undefined} \cup Keys
    /\ inputBox \in {<<>>, <<"o">>}
    /\ lastEntered = NotAsked
    /\ inv = [i \in Procs |-> Idle]

(* ----------------------- pieces of the handler ----------------------- *)

CatchErrSilent(r, msg) ==
    [r EXCEPT !.pc = "done", !.result = "failed", !.errMsg = msg]

(* catch (err) { showErrorMessage(`Commat Commit Error: ${err.message}`) } *)
CatchErr(r, msg) ==
    [r EXCEPT !.pc = "done", !.result = "failed", !.errMsg = msg,
              !.errs = @ + 1]

(* if (!apiKey) return; *)
SilentAbort(r) == [r EXCEPT !.pc = "done", !.result = "aborted"]

NoKeyProvidedSilent(r) == SilentAbort(r)

(* if (!newKey) throw new Error("No API key provided") *)
NoKeyProvided(r) == CatchErr(r, "No API key provided")

FirstUseDeclinedLoud(r) == CatchErr(r, "No API key provided")

(* first use: the prompt gave nothing, getGeminiApiKey returns it, handler returns *)
FirstUseDeclined(r) == SilentAbort(r)

(* await fetch(`...?key=${apiKey}`, ...) is issued *)
Fetch(r, k) ==
    [r EXCEPT !.pc = "fetch", !.apiKey = k, !.calls = @ + 1,
              !.callKeys = Append(@, k)]

(* withProgress -> getGitDiff(): getWorkspaceRoot() throws, or exec is started *)
StartDiff(r, hasWorkspace) ==
    IF hasWorkspace
    THEN [r EXCEPT !.pc = "exec", !.execs = @ + 1]
    ELSE CatchErr(r, "No workspace folder found")

(* the exec callback, then the handler up to the fetch *)
AfterDiff(r, err, stdout) ==
    IF err THEN CatchErr(r, "Failed to get staged changes")
    ELSE LET d == [r EXCEPT !.diff = stdout, !.gotDiff = TRUE] IN
         IF IsBlank(stdout)
         THEN [d EXCEPT !.pc = "done", !.result = "warned", !.warns = @ + 1]
         ELSE Fetch(d, d.apiKey)

(* getActiveRepository() *)
RepositoryError(env) ==
    IF env = "no-git-extension" THEN "Git extension not found"
    ELSE IF env = "no-repository" THEN "No Git repository found"
    ELSE ""

(* const repo = getActiveRepository(); repo.inputBox.value = rawMessage *)
Deliver(r, env) ==
    IF RepositoryError(env) = ""
    THEN [r EXCEPT !.pc = "done", !.result = "success", !.wrote = TRUE]
    ELSE CatchErr(r, RepositoryError(env))

(* generateCommitMessage from the resolved fetch to its return, throw or prompt *)
AfterFetch(r, response, env) ==
    LET q == [r EXCEPT !.resp = response] IN
    IF response.status = 429
    THEN [q EXCEPT !.pc = "choice", !.choiceErrs = @ + 1, !.n429 = @ + 1]
    ELSE IF ~ResponseOk(response.status)
    THEN CatchErr(q, "Gemini API error")
    ELSE IF ~HasPartsArray(response.data)
    THEN CatchErr(q, "Failed to generate commit message")
    ELSE LET text == ExtractText(PartsOf(response.data)) IN
         IF text = <<>>
         THEN CatchErr(q, "Empty commit message from Gemini")
         ELSE Deliver([q EXCEPT !.rawMessage = text], env)

BoxAlwaysWritten(r, box) == r.rawMessage

(* the commit-message field after the handler ran on from a resolved fetch to r: *)
(* repo.inputBox.value = rawMessage is the last statement, skipped by any throw *)
BoxAfter(r, box) == IF r.wrote THEN r.rawMessage ELSE box

(* ------------------------------ actions ------------------------------ *)

(* The command is invoked: getGeminiApiKey() reads the store; with a key the  *)
(* handler runs on into getGitDiff(), without one the first-use prompt opens. *)
Invoke(i) ==
    /\ inv[i].pc = "idle"
    /\ \E hasWorkspace \in BOOLEAN :
         LET r == [Idle EXCEPT !.readStore = secret, !.boxBefore = inputBox] IN
         inv' = [inv EXCEPT ![i] =
                   IF NeedsPrompt(secret)
                   THEN [r EXCEPT !.pc = "firstPrompt", !.firstPrompts = @ + 1]
                   ELSE StartDiff([r EXCEPT !.apiKey = secret], hasWorkspace)]
    /\ UNCHANGED <<secret, inputBox, lastEntered>>

(* The first-use showInputBox resolves with a key, "" or undefined (cancel). *)
FirstPrompt(i) ==
    /\ inv[i].pc = "firstPrompt"
    /\ \E input \in KeyInputs, hasWorkspace \in BOOLEAN :
         LET r == [inv[i] EXCEPT !.firstInput = input] IN
         /\ secret' = StoreIfGiven(secret, input)
         /\ lastEntered' = IF Falsy(input) THEN lastEntered ELSE input
         /\ inv' = [inv EXCEPT ![i] =
                      IF Falsy(input)
                      THEN FirstUseDeclined(r)
                      ELSE StartDiff([r EXCEPT !.apiKey = input,
                                               !.entered = @ \cup {input},
                                               !.infos = @ + 1],
                                     hasWorkspace)]
    /\ UNCHANGED inputBox

(* git diff --cached ends: exec calls back with an error or with stdout, *)
(* one of diffs.                                                          *)
ExecReturns(i, diffs) ==
    /\ inv[i].pc = "exec"
    /\ \E err \in BOOLEAN, stdout \in diffs :
         inv' = [inv EXCEPT ![i] = AfterDiff(inv[i], err, stdout)]
    /\ UNCHANGED <<secret, inputBox, lastEntered>>

(* The fetch resolves with one of responses; generateCommitMessage and the *)
(* handler run on, the git extension being in one of the states envs.      *)
FetchReturns(i, responses, envs) ==
    /\ inv[i].pc = "fetch"
    /\ \E response \in responses, env \in envs :
         /\ inv' = [inv EXCEPT ![i] = AfterFetch(inv[i], response, env)]
         /\ inputBox' = BoxAfter(inv'[i], inputBox)
    /\ UNCHANGED <<secret, lastEntered>>

(* The user answers the rate-limit notification (or dismisses it). *)
RateLimitChoice(i) ==
    /\ inv[i].pc = "choice"
    /\ \E choice \in Choices :
         inv' = [inv EXCEPT ![i] =
                   IF choice = "Enter New API Key"
                   THEN [inv[i] EXCEPT !.pc = "replPrompt", !.replPrompts = @ + 1]
                   ELSE CatchErr(inv[i], "Gemini API rate limit exceeded")]
    /\ UNCHANGED <<secret, inputBox, lastEntered>>

(* promptNewGeminiApiKey's showInputBox resolves; with a key the call is retried. *)
(* The number of calls of one invocation is capped at MaxCalls by not letting the *)
(* user supply yet another key.                                                   *)
ReplacePrompt(i) ==
    /\ inv[i].pc = "replPrompt"
    /\ \E input \in KeyInputs :
         LET r == [inv[i] EXCEPT !.replInput = input] IN
         /\ Falsy(input) \/ inv[i].calls < MaxCalls
         /\ secret' = StoreIfGiven(secret, input)
         /\ lastEntered' = IF Falsy(input) THEN lastEntered ELSE input
         /\ inv' = [inv EXCEPT ![i] =
                      IF Falsy(input)
                      THEN NoKeyProvided(r)
                      ELSE Fetch([r EXCEPT !.entered = @ \cup {input}], input)]
    /\ UNCHANGED inputBox

(* The handler's promise has settled; the command can be invoked again. *)
Finish(i) ==
    /\ inv[i].pc = "done"
    /\ inv' = [inv EXCEPT ![i] = Idle]
    /\ UNCHANGED <<secret, inputBox, lastEntered>>

Step(i, diffs, responses, envs) ==
    \/ Invoke(i)
    \/ FirstPrompt(i)
    \/ ExecReturns(i, diffs)
    \/ FetchReturns(i, responses, envs)
    \/ RateLimitChoice(i)
    \/ ReplacePrompt(i)
    \/ Finish(i)

(* one invocation at a time, every answer of git and of the endpoint *)
Next == \E i \in SeqProcs : Step(i, Diffs, Responses, RepoEnvs)

Spec == Init /\ [][Next]_vars

(* two invocations, interleaved at their suspension points, under fewer answers *)
(* of git and of the endpoint                                                   *)
ConcDiffs == {<<>>, <<"a">>}
ConcResponses ==
    {[status |-> s, data |-> NoCandidates] : s \in {429, 500}}
      \cup {[status |-> 200, data |-> [candidates |-> <<OtherCand>>]]}
ConcEnvs == {"ok"}

NextConc == \E i \in Procs : Step(i, ConcDiffs, ConcResponses, ConcEnvs)

SpecConc == Init /\ [][NextConc]_vars

(* ------------------------- words for the claims ---------------------- *)

Done(i) == inv[i].pc = "done"
Running(i) == inv[i].pc # "idle"

AllWhiteSpace(s) == \A n \in 1..Len(s) : s[n] \in WhiteSpace

(* s without its leading and trailing white space, said without recursion *)
Stripped(s) ==
    LET keep == {n \in 1..Len(s) : s[n] \notin WhiteSpace} IN
    IF keep = {} THEN <<>>
    ELSE SubSeq(s, CHOOSE n \in keep : \A m \in keep : n <= m,
                   CHOOSE n \in keep : \A m \in keep : n >= m)

TextOrNone(p) == IF "text" \in DOMAIN p THEN p.text ELSE <<>>

(* the texts of all parts, in order, built from the last part backwards *)
RECURSIVE AllText(_)
AllText(parts) ==
    IF parts = <<>> THEN <<>>
    ELSE AllText(SubSeq(parts, 1, Len(parts) - 1)) \o TextOrNone(parts[Len(parts)])

(* the invocation's last response was a 200 whose first candidate has a parts list *)
GotParts(i) ==
    /\ Done(i)
    /\ inv[i].resp.status = 200
    /\ HasPartsArray(inv[i].resp.data)

(* ------------------------------- claims ------------------------------ *)

(* C1: with a non-blank diff an invocation makes one call when the first call *)
(* succeeds, two when the first call is answered 429 and the user supplies a  *)
(* replacement key, and never more than two: a 429 on the retried call opens  *)
(* no second replacement prompt and leads to no third call.                   *)
C1_AtMostTwoCalls ==
    \A i \in Procs :
        /\ inv[i].calls <= 2
        /\ inv[i].replPrompts <= 1
        /\ (inv[i].calls >= 1 => inv[i].gotDiff /\ ~AllWhiteSpace(inv[i].diff))
        /\ (Done(i) /\ inv[i].calls >= 1 /\ inv[i].n429 = 0 => inv[i].calls = 1)
        /\ (inv[i].n429 >= 1 /\ inv[i].replInput \in Keys => inv[i].calls >= 2)

(* C2: a staged diff of white space only (the empty one included) stops the   *)
(* pipeline before any network call, with one warning, no error notification  *)
(* and the commit-message field untouched.                                    *)
C2_BlankDiffWarns ==
    \A i \in Procs :
        inv[i].gotDiff /\ AllWhiteSpace(inv[i].diff) =>
            /\ Done(i)
            /\ inv[i].result = "warned"
            /\ inv[i].calls = 0
            /\ inv[i].warns = 1
            /\ inv[i].errs = 0 /\ inv[i].choiceErrs = 0
            /\ ~inv[i].wrote
            /\ inputBox = inv[i].boxBefore

C2_Witness ==
    \E i \in Procs :
        inv[i].gotDiff /\ inv[i].diff = <<"\t">> /\ inv[i].warns = 1

(* C3: the commit-message field is written on full success only: while an     *)
(* invocation runs, and when it has ended in a silent abort, a warning or a   *)
(* failure, the field holds the value it had when the invocation began.       *)
C3_FieldWrittenOnSuccessOnly ==
    \A i \in Procs :
        Running(i) /\ inv[i].result # "success" =>
            ~inv[i].wrote /\ inputBox = inv[i].boxBefore

C3_Witness ==
    \E i \in Procs :
        /\ Done(i)
        /\ inv[i].errMsg = "Empty commit message from Gemini"
        /\ inv[i].boxBefore = <<"o">>

(* C4: a message returned by generateCommitMessage, from the first call or a  *)
(* retried one, is not empty, starts and ends with no white space and is what *)
(* the field then holds; a 200 response whose texts are all white space ends  *)
(* in a failure.                                                              *)
C4_MessageTrimmedNonEmpty ==
    \A i \in Procs :
        /\ inv[i].result = "success" =>
              /\ inv[i].rawMessage # <<>>
              /\ inv[i].rawMessage[1] \notin WhiteSpace
              /\ inv[i].rawMessage[Len(inv[i].rawMessage)] \notin WhiteSpace
              /\ inputBox = inv[i].rawMessage
        /\ GotParts(i) /\ AllWhiteSpace(AllText(PartsOf(inv[i].resp.data))) =>
              inv[i].result = "failed" /\ inv[i].rawMessage = <<>>

C4_Witness ==
    \E i \in Procs :
        /\ inv[i].result = "success"
        /\ inv[i].calls = 2
        /\ PartsOf(inv[i].resp.data) = <<[text |-> <<" ", "b", "\n">>]>>
        /\ inv[i].rawMessage = <<"b">>

(* C5: when the replacement-key prompt that follows a 429 is cancelled or     *)
(* answered with the empty string, the invocation ends as a failure shown to  *)
(* the user: one error notification, no further call, no message, the field   *)
(* and the stored credential unchanged.                                       *)
C5_DeclinedReplacement(i) ==
    inv[i].pc = "replPrompt" /\ inv'[i].pc # "replPrompt"
      /\ Falsy(inv'[i].replInput) =>
        /\ inv'[i].pc = "done"
        /\ inv'[i].result = "failed"
        /\ inv'[i].errs = 1
        /\ inv'[i].calls = inv[i].calls
        /\ inv'[i].rawMessage = <<>> /\ ~inv'[i].wrote
        /\ inputBox' = inputBox
        /\ secret' = secret

C5_DeclinedReplacementFails ==
    [][\A i \in Procs : C5_DeclinedReplacement(i)]_vars

C5_Witness ==
    \E i \in Procs :
        /\ Done(i)
        /\ inv[i].replInput = Undefined
        /\ inv[i].errMsg = "No API key provided"
        /\ inv[i].calls = 1

(* C6: once a credential is stored, the store never loses it and changes only *)
(* through the replacement prompt; an invocation that finds a credential in   *)
(* the store shows no first-use prompt and makes its first call with it; the  *)
(* first-use prompt is shown only to an invocation that found none.           *)
C6_Reused(i) ==
    /\ Running(i) /\ ~Falsy(inv[i].readStore) =>
          /\ inv[i].firstPrompts = 0
          /\ inv[i].firstInput = NotAsked
          /\ (inv[i].calls >= 1 => inv[i].callKeys[1] = inv[i].readStore)
    /\ inv[i].firstPrompts > 0 => Falsy(inv[i].readStore)

C6_StoreStep ==
    /\ ~Falsy(secret) =>
          /\ ~Falsy(secret')
          /\ (secret' # secret =>
                \E i \in Procs :
                    inv[i].pc = "replPrompt" /\ inv'[i].replInput = secret')
    /\ \A i \in Procs :
          inv[i].pc = "idle" /\ inv'[i].pc # "idle" => inv'[i].readStore = secret

C6_CredentialReused ==
    [](\A i \in Procs : C6_Reused(i)) /\ [][C6_StoreStep]_vars

C6_Witness ==
    \E i \in Procs :
        /\ inv[i].readStore = lastEntered
        /\ inv[i].firstPrompts = 0
        /\ inv[i].calls = 1
        /\ inv[i].callKeys = <<lastEntered>>

(* C7: when no credential is stored and the first-use prompt is cancelled or  *)
(* answered with the empty string, the invocation ends silently: nothing is   *)
(* stored, git is not run, no call is made, the field is not written and no   *)
(* notification of any kind is shown.                                         *)
C7_FirstUseDeclinedSilent ==
    \A i \in Procs :
        Falsy(inv[i].firstInput) =>
            /\ Done(i)
            /\ inv[i].result = "aborted"
            /\ Falsy(inv[i].readStore) /\ Falsy(secret)
            /\ inv[i].execs = 0
            /\ inv[i].calls = 0
            /\ ~inv[i].wrote /\ inputBox = inv[i].boxBefore
            /\ inv[i].errs = 0 /\ inv[i].choiceErrs = 0
            /\ inv[i].warns = 0 /\ inv[i].infos = 0

C7_Witness ==
    \E i \in Procs :
        inv[i].firstInput = "" /\ inv[i].result = "aborted" /\ Falsy(secret)

(* C8, as stated: an invocation that ends in a failure has shown exactly one  *)
(* error notification, on the rate-limit paths too.                           *)
C8_SingleErrorNotification ==
    \A i \in Procs :
        Done(i) /\ inv[i].result = "failed" =>
            inv[i].errs + inv[i].choiceErrs = 1

(* C8, amended: an invocation that ends in a failure has shown exactly one    *)
(* error notification raised by the handler's catch, and besides it one       *)
(* error-styled choice notification for each 429 it received; an invocation   *)
(* that ends otherwise has shown none from the catch.                         *)
C8_OneTopLevelErrorPlusChoices ==
    \A i \in Procs :
        Done(i) =>
            /\ inv[i].result = "failed" =>
                  /\ inv[i].errs = 1
                  /\ inv[i].errMsg # ""
                  /\ inv[i].errs + inv[i].choiceErrs = 1 + inv[i].n429
            /\ inv[i].result # "failed" => inv[i].errs = 0

C8_Witness ==
    \E i \in Procs :
        /\ Done(i)
        /\ inv[i].errMsg = "Gemini API rate limit exceeded"
        /\ inv[i].errs = 1
        /\ inv[i].choiceErrs = 1

(* C9, as stated: the message is the trimmed text of the first part of the    *)
(* first candidate, and when that text is absent or blank the call fails.     *)
C9_FirstPartOnly ==
    \A i \in Procs :
        GotParts(i) =>
            LET parts == PartsOf(inv[i].resp.data)
                first == IF parts = <<>> THEN <<>>
                         ELSE Stripped(TextOrNone(parts[1]))
            IN /\ inv[i].result = "success" => inv[i].rawMessage = first
               /\ first = <<>> => inv[i].result = "failed"

(* C9, amended: the message is the trimmed concatenation, in order, of the    *)
(* texts of all parts of the first candidate; the call fails when that        *)
(* concatenation is blank or the first candidate has no parts list.           *)
C9_AllPartsJoined ==
    \A i \in Procs :
        /\ GotParts(i) =>
              LET all == Stripped(AllText(PartsOf(inv[i].resp.data))) IN
              /\ inv[i].result = "success" => inv[i].rawMessage = all
              /\ all = <<>> =>
                    inv[i].errMsg = "Empty commit message from Gemini"
              /\ all # <<>> =>
                    inv[i].result = "success"
                      \/ inv[i].errMsg \in {"Git extension not found",
                                            "No Git repository found"}
        /\ Done(i) /\ inv[i].resp.status = 200
             /\ ~HasPartsArray(inv[i].resp.data) =>
              inv[i].errMsg = "Failed to generate commit message"

C9_Witness ==
    \E i \in Procs :
        /\ inv[i].result = "success"
        /\ PartsOf(inv[i].resp.data)
             = <<[text |-> <<"a">>], [text |-> <<" ", "b", "\n">>]>>
        /\ inv[i].rawMessage = <<"a", " ", "b">>

(* C10: with two invocations interleaved, every call of an invocation carries *)
(* the key the invocation read from the store when it began or a key typed    *)
(* into one of its own prompts (the latest of them); the store holds the last *)
(* non-empty key typed into any prompt; an invocation that begins after a key *)
(* was typed reads that key, is not prompted, and calls with it first.        *)
C10_OwnKeys(i) ==
    /\ \A n \in 1..Len(inv[i].callKeys) :
          inv[i].callKeys[n] \in {inv[i].readStore} \cup inv[i].entered
    /\ Len(inv[i].callKeys) = inv[i].calls
    /\ inv[i].calls >= 1 =>
          /\ inv[i].callKeys[inv[i].calls] = inv[i].apiKey
          /\ (~Falsy(inv[i].readStore) => inv[i].callKeys[1] = inv[i].readStore)
          /\ (inv[i].calls >= 2 /\ inv[i].pc = "fetch" =>
                inv[i].apiKey = inv[i].replInput)

C10_StartStep(i) ==
    inv[i].pc = "idle" /\ inv'[i].pc # "idle" /\ lastEntered # NotAsked =>
        /\ inv'[i].readStore = lastEntered
        /\ inv'[i].apiKey = lastEntered
        /\ inv'[i].firstPrompts = 0

C10_StaleKeyAtWorst ==
    /\ [](/\ lastEntered # NotAsked => secret = lastEntered
          /\ \A i \in Procs : C10_OwnKeys(i))
    /\ [][\A i \in Procs : C10_StartStep(i)]_vars

C10_Witness ==
    \E i, j \in Procs :
        /\ i # j
        /\ inv[i].pc = "fetch" /\ inv[i].entered = {}
        /\ inv[j].pc = "fetch" /\ inv[j].calls = 2
        /\ inv[j].readStore = inv[i].readStore
        /\ inv[j].replInput = secret
        /\ inv[i].apiKey # secret

====
